---- MODULE Spec2Model ----
(***************************************************************************)
(* Payout calculation and submission review engine of the clipper program. *)
(*                                                                         *)
(*   src/src/types/clipper.ts              calculatePayout and helpers     *)
(*   src/src/services/submission-service.ts SubmissionService              *)
(*   src/unnamed/part_003                  QueueProcessor                  *)
(*                                                                         *)
(* Money.  The code computes with IEEE doubles; the model computes with    *)
(* exact decimals.  An amount is an integer number of units, one unit      *)
(* being 1 / (PerMille * Hundred * Grain) dollar, so that                  *)
(* (viewCount / 1000) * rate is an integer for every rate that is a whole  *)
(* number of grains (a grain is 1/Grain cent).  The binary representation  *)
(* error of doubles is not modelled, except where a result is decided by   *)
(* it: Math.ceil of a quotient that is a whole number in exact decimals    *)
(* (minimumViewsForPayout), where both outcomes are taken.                 *)
(***************************************************************************)
EXTENDS Integers, Sequences, FiniteSets, TLC

\* ------------------------------------------------------------------------
\* Units and bounds
\* ------------------------------------------------------------------------

\* (viewCount / 1000): views per CPM block
PerMille == 1000
\* Math.round(x * 100) / 100: cents per dollar
Hundred == 100
\* sub-cent resolution of the configured amounts the model draws
Grain == 10
\* one cent, in units
Cent == PerMille * Grain
\* one dollar, in units
Dollar == Hundred * Cent
\* a configured amount of g grains, in units
Grains(g) == g * PerMille

\* `undefined` / a missing optional field
Undef == -1

\* largest view count drawn for the calculator
MaxViewCount == 4
\* largest cpmRate / bonusRate drawn for the calculator, in dollars
MaxCpmDollars == 3
MaxBonusDollars == 1
\* largest flatFee, minPayoutThreshold, maxPayoutCap drawn, in grains
MaxFlatGrains == 6
MaxThresholdGrains == 12
MaxCapGrains == 12

\* ------------------------------------------------------------------------
\* JavaScript operators on optional numbers
\* ------------------------------------------------------------------------

\* a || b on numbers: b when a is undefined or 0
OrElse(a, b) == IF a = Undef \/ a = 0 THEN b ELSE a

\* a ?? b: b only when a is undefined
Nullish(a, b) == IF a = Undef THEN b ELSE a

Min(a, b) == IF a <= b THEN a ELSE b

\* x cut to whole cents (Math.floor in place of Math.round)
Round2Down(x) == (x \div Cent) * Cent

\* Math.round(x * 100) / 100 for x >= 0: nearest cent, halves up
Round2(x) == ((2 * x + Cent) \div (2 * Cent)) * Cent

\* ------------------------------------------------------------------------
\* calculatePayout (clipper.ts 154-182)
\* ------------------------------------------------------------------------

\* (viewCount / 1000) * rate; exact, every rate being a whole number of grains
\* (a multiple of PerMille units)
PerThousand(viewCount, rate) == viewCount * (rate \div PerMille)

\* calculatePayout paying the flat fee only to a submission without views
calculatePayoutFlatFeeWithoutViews(viewCount, config) ==
  LET cpmPayout == PerThousand(viewCount, config.cpmRate)
      flatFee == IF viewCount = 0 THEN OrElse(config.flatFee, 0) ELSE 0
      bonusPayout == IF config.bonusRate # Undef /\ config.bonusRate # 0
                     THEN PerThousand(viewCount, config.bonusRate)
                     ELSE 0
      grossTotal == cpmPayout + flatFee + bonusPayout
      cappedTotal == Min(grossTotal, config.maxPayoutCap)
      meetsMinimum == cappedTotal >= config.minPayoutThreshold
      finalPayout == IF meetsMinimum THEN cappedTotal ELSE 0
  IN [ viewCount    |-> viewCount,
       cpmPayout    |-> Round2(cpmPayout),
       flatFee      |-> flatFee,
       bonusPayout  |-> Round2(bonusPayout),
       grossTotal   |-> Round2(grossTotal),
       cappedTotal  |-> Round2(cappedTotal),
       finalPayout  |-> Round2(finalPayout),
       meetsMinimum |-> meetsMinimum,
       wasCapped    |-> grossTotal > config.maxPayoutCap ]

calculatePayout(viewCount, config) ==
  LET cpmPayout == PerThousand(viewCount, config.cpmRate)
      flatFee == OrElse(config.flatFee, 0)
      bonusPayout == IF config.bonusRate # Undef /\ config.bonusRate # 0
                     THEN PerThousand(viewCount, config.bonusRate)
                     ELSE 0
      grossTotal == cpmPayout + flatFee + bonusPayout
      cappedTotal == Min(grossTotal, config.maxPayoutCap)
      meetsMinimum == cappedTotal >= config.minPayoutThreshold
      finalPayout == IF meetsMinimum THEN cappedTotal ELSE 0
  IN [ viewCount    |-> viewCount,
       cpmPayout    |-> Round2(cpmPayout),
       flatFee      |-> flatFee,
       bonusPayout  |-> Round2(bonusPayout),
       grossTotal   |-> Round2(grossTotal),
       cappedTotal  |-> Round2(cappedTotal),
       finalPayout  |-> Round2(finalPayout),
       meetsMinimum |-> meetsMinimum,
       wasCapped    |-> grossTotal > config.maxPayoutCap ]

\* ------------------------------------------------------------------------
\* meetsMinimumThreshold, minimumViewsForPayout (clipper.ts 187-205)
\* ------------------------------------------------------------------------

\* what a division by zero of a positive double yields, and Math.ceil keeps:
\* a value above every view count
Infinity == 2147483647

\* the same sum with the bonus payout included
meetsMinimumThresholdWithBonus(viewCount, config) ==
  PerThousand(viewCount, config.cpmRate) + OrElse(config.flatFee, 0)
    + (IF config.bonusRate # Undef THEN PerThousand(viewCount, config.bonusRate) ELSE 0)
    >= config.minPayoutThreshold

\* meetsMinimumThreshold (lines 187-194).  For viewCount = Infinity the
\* product is Infinity when cpmRate > 0 and NaN when cpmRate = 0, and a
\* comparison with NaN is false.
meetsMinimumThreshold(viewCount, config) ==
  IF viewCount = Infinity
  THEN config.cpmRate > 0
  ELSE LET cpmPayout == PerThousand(viewCount, config.cpmRate)
           total == cpmPayout + OrElse(config.flatFee, 0)
       IN total >= config.minPayoutThreshold

\* Math.ceil((a / b) * 1000) for a > 0, b > 0.  When the exact quotient is a
\* whole number the double computed for it is that number or lies just above
\* it (0.07 / 5 * 1000 is 14.000000000000002), and Math.ceil then yields the
\* next integer: `up` says which.
CeilPerMille(a, b, up) ==
  IF (a * PerMille) % b = 0
  THEN (a * PerMille) \div b + (IF up THEN 1 ELSE 0)
  ELSE (a * PerMille) \div b + 1

\* minimumViewsForPayout with the division guarded: 0 views when cpmRate is 0
minimumViewsForPayoutGuarded(config, up) ==
  LET remainingAfterFlat == config.minPayoutThreshold - OrElse(config.flatFee, 0)
  IN IF remainingAfterFlat <= 0 \/ config.cpmRate = 0 THEN 0
     ELSE CeilPerMille(remainingAfterFlat, config.cpmRate, up)

\* minimumViewsForPayout (lines 199-205); a positive remainder divided by a
\* cpmRate of 0 is Infinity
minimumViewsForPayout(config, up) ==
  LET remainingAfterFlat == config.minPayoutThreshold - OrElse(config.flatFee, 0)
  IN IF remainingAfterFlat <= 0 THEN 0
     ELSE IF config.cpmRate = 0 THEN Infinity
     ELSE CeilPerMille(remainingAfterFlat, config.cpmRate, up)

\* ------------------------------------------------------------------------
\* Application configuration (config.ts 22-27) and bounds of the review model
\* ------------------------------------------------------------------------

\* config.clipper.defaultCpmRate, minPayoutThreshold, maxPayoutCap
AppDefaultCpmRate == 5 * Dollar
AppMinPayoutThreshold == 1 * Dollar
AppMaxPayoutCap == 500 * Dollar
\* config.clipper.autoApproveHours (AUTO_APPROVE_HOURS), set small enough for
\* the model's clock to pass it
AppAutoApproveHours == 2

\* entries known to the repository: ids 1..MaxEntries
MaxEntries == 3
\* the clock runs from 0 to MaxNow hours
MaxNow == 3
\* latest creation time of an entry, in hours
MaxCreated == 1

EntryIds == 1..MaxEntries
\* experience 1 owns every entry but the last, experience 2 the last one
ExperienceOf(e) == IF e < MaxEntries THEN 1 ELSE 2
ExperienceIds == {1, 2}

\* WhopEntry.status (submission-service.ts 17)
Statuses == {"pending", "approved", "denied", "flagged"}
\* WhopEntry.view_count?: number
ViewCounts == {Undef, 50000}

\* ApprovalOptions.campaignConfig / BulkReviewOptions.campaignConfig:
\* a Partial<CampaignConfig>; an absent object has every field undefined
NoCampaignConfig ==
  [ cpmRate |-> Undef, flatFee |-> Undef, bonusRate |-> Undef,
    minPayoutThreshold |-> Undef, maxPayoutCap |-> Undef ]
CampaignConfigs ==
  { NoCampaignConfig,
    [ cpmRate |-> 2 * Dollar, flatFee |-> 0, bonusRate |-> Undef,
      minPayoutThreshold |-> 10 * Dollar, maxPayoutCap |-> 1000 * Dollar ],
    [ NoCampaignConfig EXCEPT !.minPayoutThreshold = 0 ] }

\* ------------------------------------------------------------------------
\* SubmissionService: pure parts
\* ------------------------------------------------------------------------

\* calculateSubmissionPayout (submission-service.ts 177-190)
calculateSubmissionPayout(viewCount, campaignConfig) ==
  calculatePayout(viewCount,
    [ cpmRate            |-> OrElse(campaignConfig.cpmRate, AppDefaultCpmRate),
      flatFee            |-> OrElse(campaignConfig.flatFee, 0),
      bonusRate          |-> campaignConfig.bonusRate,
      minPayoutThreshold |-> OrElse(campaignConfig.minPayoutThreshold, AppMinPayoutThreshold),
      maxPayoutCap       |-> OrElse(campaignConfig.maxPayoutCap, AppMaxPayoutCap) ])

\* the same with || in place of ??: an override of 0 falls through to the entry
ApprovalViewCountFalsy(override, entry) ==
  OrElse(override, OrElse(entry.view_count, 0))

\* approveSubmission line 207: options.viewCount ?? currentEntry.view_count ?? 0
ApprovalViewCount(override, entry) ==
  Nullish(override, Nullish(entry.view_count, 0))

\* the body POSTed to /entries/{id}/approve (lines 214-220) or /deny (245-248),
\* with the status the repository held when the command reached it
ApproveCommand(id, payout, viewCount, prior) ==
  [ kind |-> "approve", id |-> id, payout_amount |-> payout.finalPayout,
    view_count |-> viewCount, reason |-> "", prior |-> prior ]
DenyCommand(id, reason, prior) ==
  [ kind |-> "deny", id |-> id, payout_amount |-> 0,
    view_count |-> 0, reason |-> reason, prior |-> prior ]

\* the PayoutCalculation placeholder of a call that has not computed one
NoCalc ==
  [ viewCount |-> 0, cpmPayout |-> 0, flatFee |-> 0, bonusPayout |-> 0,
    grossTotal |-> 0, cappedTotal |-> 0, finalPayout |-> 0,
    meetsMinimum |-> FALSE, wasCapped |-> FALSE ]

\* BulkReviewOptions (submission-service.ts 62-71)
NoBulkOptions ==
  [ autoApproveAfterHours |-> Undef, minViewCount |-> Undef, limit |-> Undef,
    campaignConfig |-> NoCampaignConfig ]

\* the local state of one bulkReview call (lines 272-284 and the loop).
\* stage: the request the call is awaiting ("list", "get", "post"), or "done"
\* (results returned), "failed" (the listing threw), "idle" (no call).
\* attempted and failed list, in order, the entries approveSubmission was
\* invoked for and those for which it threw; cmds lists the commands the call
\* has sent to the repository; listedAt is Date.now() at line 284.
IdleSweep ==
  [ stage |-> "idle", exp |-> 0, opts |-> NoBulkOptions, toProcess |-> <<>>,
    i |-> 0, listedAt |-> 0, cutoffTime |-> 0, minViewCount |-> 0, viewCount |-> 0,
    payout |-> NoCalc,
    results |-> [approved |-> 0, rejected |-> 0, skipped |-> 0, totalPayout |-> 0],
    attempted |-> <<>>, failed |-> <<>>, cmds |-> <<>> ]

\* bulkReview up to its first await: getPendingSubmissions (line 279)
NewSweep(exp, opts) == [IdleSweep EXCEPT !.stage = "list", !.exp = exp, !.opts = opts]

\* line 291 with <= in place of <: an entry aged exactly the threshold passes
ShouldAutoApproveAtAge(sw, submission) ==
  /\ submission.created_at <= sw.cutoffTime
  /\ OrElse(submission.view_count, 0) >= sw.minViewCount

\* line 291: createdAt < cutoffTime && viewCount >= minViewCount
ShouldAutoApprove(sw, submission) ==
  /\ submission.created_at < sw.cutoffTime
  /\ OrElse(submission.view_count, 0) >= sw.minViewCount

\* the loop with an else branch that rejects: an item that is not eligible is
\* denied and counted as rejected
RECURSIVE RunLoopRejects(_)
RunLoopRejects(sw) ==
  IF sw.i > Len(sw.toProcess)
  THEN [sw EXCEPT !.stage = "done"]
  ELSE IF ShouldAutoApprove(sw, sw.toProcess[sw.i])
       THEN [sw EXCEPT !.stage = "get",
                       !.attempted = Append(@, sw.toProcess[sw.i].id)]
       ELSE RunLoopRejects(
              [sw EXCEPT !.i = @ + 1, !.results.rejected = @ + 1,
                         !.cmds = Append(@, DenyCommand(sw.toProcess[sw.i].id,
                                                        "not eligible", "pending"))])

\* the for loop of lines 286-305 from item sw.i on, up to its next await:
\* items that are not eligible are counted as skipped; the first eligible one
\* has approveSubmission invoked, which awaits getSubmission
RECURSIVE RunLoop(_)
RunLoop(sw) ==
  IF sw.i > Len(sw.toProcess)
  THEN [sw EXCEPT !.stage = "done"]
  ELSE IF ShouldAutoApprove(sw, sw.toProcess[sw.i])
       THEN [sw EXCEPT !.stage = "get",
                       !.attempted = Append(@, sw.toProcess[sw.i].id)]
       ELSE RunLoop([sw EXCEPT !.i = @ + 1, !.results.skipped = @ + 1])

\* a failure that ends the loop instead of being caught per item
ApproveFailedAborts(sw) ==
  [sw EXCEPT !.stage = "done", !.i = @ + 1, !.results.skipped = @ + 1,
             !.failed = Append(@, sw.toProcess[sw.i].id)]

\* the catch of lines 298-301: the failed item is counted as skipped
ApproveFailed(sw) ==
  RunLoop([sw EXCEPT !.i = @ + 1, !.results.skipped = @ + 1,
                     !.failed = Append(@, sw.toProcess[sw.i].id)])

\* lines 279-284 once the listing has answered
AfterList(sw, ok, pending, t) ==
  IF ~ok
  THEN [sw EXCEPT !.stage = "failed"]
  ELSE LET limit == sw.opts.limit
           toProcess == IF limit # Undef /\ limit # 0
                        THEN SubSeq(pending, 1, Min(limit, Len(pending)))
                        ELSE pending
           hours == OrElse(sw.opts.autoApproveAfterHours, AppAutoApproveHours)
       IN RunLoop([sw EXCEPT !.toProcess = toProcess, !.i = 1, !.listedAt = t,
                             !.cutoffTime = t - hours,
                             !.minViewCount = OrElse(sw.opts.minViewCount, 0)])

\* approveSubmission inside the sweep, once getSubmission has answered
\* (lines 206-214): the payout is computed and the approve command issued
AfterGet(sw, ok, entry) ==
  IF ok
  THEN LET viewCount == ApprovalViewCount(Undef, entry)
           payout == calculateSubmissionPayout(viewCount, sw.opts.campaignConfig)
       IN [sw EXCEPT !.stage = "post", !.viewCount = viewCount, !.payout = payout,
                     !.cmds = Append(@, ApproveCommand(sw.toProcess[sw.i].id, payout,
                                                       viewCount, entry.status))]
  ELSE ApproveFailed(sw)

\* an approval that is counted without its payout being added
AfterPostCountsOnly(sw, ok) ==
  IF ok
  THEN RunLoop([sw EXCEPT !.i = @ + 1, !.results.approved = @ + 1])
  ELSE ApproveFailed(sw)

\* lines 296-297 once the approve command has answered
AfterPost(sw, ok) ==
  IF ok
  THEN RunLoop([sw EXCEPT !.i = @ + 1, !.results.approved = @ + 1,
                          !.results.totalPayout = @ + sw.payout.finalPayout])
  ELSE ApproveFailed(sw)

\* the entry the sweep's current approveSubmission is about
CurrentId(sw) == sw.toProcess[sw.i].id

\* ------------------------------------------------------------------------
\* QueueProcessor: pure parts (part_003)
\* ------------------------------------------------------------------------

\* the processAll runs the model follows at a time
RunIds == {1, 2}
\* results recorded in one behaviour
MaxResults == 2
\* "Keep only last 100 results" (line 126)
HistoryLimit == 100

Null == 0

\* the arguments startProcessorCommand passes (cli/index.ts 626-632)
StartArgs ==
  [ intervalMs : {(5 * 60) * 1000},
    experienceIds : {<<1, 2>>},
    autoApproveAfterHours : {1},
    minViewCount : {Undef},
    batchSize : {Undef},
    campaignConfig : {NoCampaignConfig} ]

\* the constructor (lines 47-58)
QueueProcessorConfig(config) ==
  [ intervalMs            |-> OrElse(config.intervalMs, (5 * 60) * 1000),
    experienceIds         |-> config.experienceIds,
    autoApproveAfterHours |-> OrElse(config.autoApproveAfterHours, AppAutoApproveHours),
    minViewCount          |-> OrElse(config.minViewCount, 0),
    batchSize             |-> OrElse(config.batchSize, 50),
    campaignConfig        |-> config.campaignConfig ]

\* getStatus returns the last 10 results (line 194)
RecentLimit == 10

\* the elements of a sequence
Range(seq) == {seq[k] : k \in DOMAIN seq}

\* the last n elements of a sequence: slice(-n)
LastOf(seq, n) ==
  SubSeq(seq, (IF Len(seq) > n THEN Len(seq) - n ELSE 0) + 1, Len(seq))

\* one processAll run: k iterations of the for loop (line 115) begun, sw the
\* bulkReview call of the current one, out the local results.  Two fields
\* record the run's past and are read by no step: swept, the experiences
\* whose sweep it has started, in order, and stable, the experiences in the
\* list since the run began
IdleRun ==
  [active |-> FALSE, k |-> 0, sw |-> IdleSweep, out |-> <<>>, swept |-> <<>>,
   stable |-> {}]

\* the BulkReviewOptions processExperience builds (lines 139-144)
ProcessOptions(cfg) ==
  [ autoApproveAfterHours |-> cfg.autoApproveAfterHours,
    minViewCount          |-> cfg.minViewCount,
    limit                 |-> cfg.batchSize,
    campaignConfig        |-> cfg.campaignConfig ]

\* the ProcessingResult of lines 148-152
ProcessingResult(sw, t) ==
  [ experienceId |-> sw.exp, approved |-> sw.results.approved,
    rejected |-> sw.results.rejected, skipped |-> sw.results.skipped,
    totalPayout |-> sw.results.totalPayout, processedAt |-> t ]

\* a history cut to its first 100 results
KeepFirst(res) ==
  IF Len(res) > HistoryLimit THEN SubSeq(res, 1, HistoryLimit) ELSE res

\* this.results.slice(-100) when longer than 100 (lines 126-128)
KeepLast(res) ==
  IF Len(res) > HistoryLimit
  THEN SubSeq(res, Len(res) - HistoryLimit + 1, Len(res))
  ELSE res

\* whether processAll goes on to a further experience: the for loop of line
\* 115 reads the live experienceIds array and never looks at isRunning
HasNext(run, cfg, running) == run.k < Len(cfg.experienceIds)

\* processAll from the point where the current bulkReview (if any) is over,
\* up to its next await: a finished sweep is recorded (118-119), a failed one
\* only logged (121); then the next experience's sweep starts, or the run ends
Proceed(run, res, cfg, running, t) ==
  LET done == run.sw.stage = "done"
      out2 == IF done THEN Append(run.out, ProcessingResult(run.sw, t)) ELSE run.out
      res2 == IF done THEN Append(res, ProcessingResult(run.sw, t)) ELSE res
  IN IF HasNext(run, cfg, running)
     THEN [ run |-> [ active |-> TRUE, k |-> run.k + 1,
                      sw |-> NewSweep(cfg.experienceIds[run.k + 1], ProcessOptions(cfg)),
                      out |-> out2,
                      swept |-> Append(run.swept, cfg.experienceIds[run.k + 1]),
                      stable |-> IF run.active THEN run.stable
                                 ELSE Range(cfg.experienceIds) ],
            results |-> res2 ]
     ELSE [ run |-> IdleRun, results |-> KeepLast(res2) ]

\* results recorded since the model's behaviour began: those of an earlier
\* time (processedAt < 0) are the history it began with
Recorded(res) == Cardinality({k \in DOMAIN res : res[k].processedAt >= 0})

\* a history of n results of earlier times, oldest first
EarlierResults(n) ==
  [ k \in 1..n |->
      [ experienceId |-> 1, approved |-> 0, rejected |-> 0, skipped |-> 0,
        totalPayout |-> 0, processedAt |-> k - n - 1 ] ]

\* addExperience (lines 165-170)
addExperience(experienceIds, experienceId) ==
  IF experienceId \notin Range(experienceIds)
  THEN Append(experienceIds, experienceId)
  ELSE experienceIds

\* removeExperience (lines 175-181): indexOf and splice
removeExperience(experienceIds, experienceId) ==
  IF experienceId \in Range(experienceIds)
  THEN LET index == CHOOSE k \in DOMAIN experienceIds :
                      /\ experienceIds[k] = experienceId
                      /\ \A j \in 1..(k - 1) : experienceIds[j] # experienceId
       IN SubSeq(experienceIds, 1, index - 1)
            \o SubSeq(experienceIds, index + 1, Len(experienceIds))
  ELSE experienceIds

\* the updates updateConfig is called with: a Partial<QueueProcessorConfig>
\* with intervalMs absent, 0 or one minute
ConfigUpdates == [ intervalMs : {Undef, 0, 60 * 1000} ]

\* Object.assign(this.config, updates) (line 202)
Assign(cfg, updates) ==
  [cfg EXCEPT !.intervalMs = IF updates.intervalMs # Undef THEN updates.intervalMs ELSE @]

\* updateConfig never restarting
RestartsNever(running, updates) == FALSE

\* `this.isRunning && updates.intervalMs` (line 206): undefined and 0 are falsy
Restarts(running, updates) ==
  running /\ updates.intervalMs # Undef /\ updates.intervalMs # 0

\* what getStatus returns (lines 186-196)
NoReport == [asked |-> FALSE, isRunning |-> FALSE, recentResults |-> <<>>]

\* ------------------------------------------------------------------------
\* SubmissionService.getStats (submission-service.ts 314-366) and
\* statsCommand (cli/index.ts 537-570): pure parts
\* ------------------------------------------------------------------------

\* submissions the repository holds when statistics are taken, the page size
\* it answers with, and the view counts drawn for them
MaxStatsEntries == 3
PageSize == 2
StatsViewCounts == {Undef, 1, 2}

\* Math.round(a / b) for a >= 0, b > 0
RoundDiv(a, b) == (2 * a + b) \div (2 * b)

\* the SubmissionStats of lines 317-326
ZeroStats ==
  [ total |-> 0, pending |-> 0, approved |-> 0, rejected |-> 0, flagged |-> 0,
    totalViews |-> 0, totalPayout |-> 0, averageViews |-> 0 ]

\* the switch of lines 347-362 on one submission
Count(st, submission) ==
  IF submission.status = "pending" THEN [st EXCEPT !.pending = @ + 1]
  ELSE IF submission.status = "approved"
       THEN [st EXCEPT !.approved = @ + 1,
                       !.totalViews = @ + OrElse(submission.view_count, 0)]
  ELSE IF submission.status = "denied" THEN [st EXCEPT !.rejected = @ + 1]
  ELSE IF submission.status = "flagged" THEN [st EXCEPT !.flagged = @ + 1]
  ELSE st

\* getStats adding up the views of every submission, approved or not
RECURSIVE TallyAllViews(_, _)
TallyAllViews(st, submissions) ==
  IF submissions = <<>> THEN st
  ELSE TallyAllViews(
         [Count(st, Head(submissions)) EXCEPT
            !.totalViews = st.totalViews + OrElse(Head(submissions).view_count, 0)],
         Tail(submissions))

\* the for loop of lines 346-363
RECURSIVE Tally(_, _)
Tally(st, submissions) ==
  IF submissions = <<>> THEN st
  ELSE Tally(Count(st, Head(submissions)), Tail(submissions))

\* getStats once every page is fetched (lines 344-365)
StatsOf(allSubmissions) ==
  LET st == Tally([ZeroStats EXCEPT !.total = Len(allSubmissions)], allSubmissions)
  IN [st EXCEPT !.averageViews =
        IF st.approved > 0 THEN RoundDiv(st.totalViews, st.approved) ELSE 0]

\* the approvalRate of statsCommand with no test of total: 0 / 0 is NaN
ApprovalRateUnguarded(st) ==
  IF st.total > 0
  THEN [kind |-> "percent", tenths |-> RoundDiv(st.approved * 1000, st.total)]
  ELSE [kind |-> "NaN", tenths |-> 0]

\* the approvalRate of statsCommand (cli/index.ts 558-560): the percentage
\* with one decimal, held in tenths of a percent, or 'N/A'
ApprovalRate(st) ==
  IF st.total > 0
  THEN [kind |-> "percent", tenths |-> RoundDiv(st.approved * 1000, st.total)]
  ELSE [kind |-> "N/A", tenths |-> 0]

\* one page of GET /entries: the submissions after the cursor, at most
\* PageSize of them, and the next cursor (Undef on the last page)
PageAfter(all, after) ==
  LET from == IF after = Undef THEN 1 ELSE after + 1
      to == Min(Len(all), from + PageSize - 1)
  IN [ submissions |-> SubSeq(all, from, to),
       nextCursor |-> IF to < Len(all) THEN to ELSE Undef ]

\* one getStats call: the request it awaits (stage "list") or how it ended
\* ("returned", "thrown"), the cursor, the submissions fetched so far, the
\* requests made, the statistics and the approvalRate statsCommand derives
NoStatsCall ==
  [ stage |-> "none", cursor |-> Undef, allSubmissions |-> <<>>, requests |-> <<>>,
    result |-> ZeroStats, approvalRate |-> [kind |-> "none", tenths |-> 0] ]

\* the do-while of lines 332-340 once a page has answered, and what follows
\* the last page
AfterPage(st, page) ==
  LET all == st.allSubmissions \o page.submissions
  IN IF page.nextCursor # Undef
     THEN [st EXCEPT !.allSubmissions = all, !.cursor = page.nextCursor,
                     !.requests = Append(@, "GET /entries")]
     ELSE [st EXCEPT !.allSubmissions = all, !.cursor = Undef, !.stage = "returned",
                     !.result = StatsOf(all),
                     !.approvalRate = ApprovalRate(StatsOf(all))]

\* ------------------------------------------------------------------------
\* PayoutService.sendPayout, getBalance, processBatchPayouts
\* (payout-service.ts 107-214, 289-327): pure parts
\* ------------------------------------------------------------------------

\* items of one batch
MaxBatch == 2
\* the amounts requested, in dollars: below the minimum threshold, payable,
\* and above the balance of a funded account
PayAmounts == {Dollar \div 2, 5 * Dollar, 20 * Dollar}
\* available_balance of the ledger account, in cents
LedgerCents == {0, 1000}

\* BatchPayoutResult (lines 292-298)
ZeroBatchResult ==
  [ successful |-> 0, failed |-> 0, totalAmount |-> 0, transfers |-> <<>>,
    errors |-> <<>> ]

\* one sendPayout call, made directly (kind "send") or by processBatchPayouts
\* for item i of payouts (kind "batch"): the request it awaits (stage
\* "balance", "transfer") or how the whole call ended ("returned", "thrown");
\* amount is request.amount, balanceRead how getBalance ended for the current
\* sendPayout ("ok", "failed", "none" when not reached), available the balance
\* it read, code the PayoutErrorCode thrown, posts the POST /transfers
\* requests issued ([item, amount in cents]) and attempted the items
\* sendPayout was called for
NoPay ==
  [ kind |-> "none", stage |-> "none", payouts |-> <<>>, i |-> 0, amount |-> 0,
    balanceRead |-> "none", available |-> 0, code |-> "none", posts |-> <<>>,
    attempted |-> <<>>, result |-> ZeroBatchResult ]

\* sendPayout lines 135-152, up to the await of getBalance: an amount below
\* the minimum threshold throws at once
RECURSIVE BatchLoop(_)

\* the catch of processBatchPayouts ending the batch at the first failure
SendThrownAborts(p, code) ==
  IF p.kind = "batch"
  THEN [p EXCEPT !.stage = "returned", !.code = code,
                 !.result.failed = @ + 1,
                 !.result.errors = Append(@, [item |-> p.i, error |-> code])]
  ELSE [p EXCEPT !.stage = "thrown", !.code = code]

\* sendPayout throws a PayoutError: the direct call ends; in a batch the catch
\* of lines 311-317 records the item and the loop goes on
SendThrown(p, code) ==
  IF p.kind = "batch"
  THEN BatchLoop([p EXCEPT !.i = @ + 1, !.code = code,
                           !.result.failed = @ + 1,
                           !.result.errors = Append(@, [item |-> p.i, error |-> code])])
  ELSE [p EXCEPT !.stage = "thrown", !.code = code]

\* sendPayout returns the transfer (line 186); in a batch lines 308-310 count it
SendReturned(p) ==
  IF p.kind = "batch"
  THEN BatchLoop([p EXCEPT !.i = @ + 1,
                           !.result.successful = @ + 1,
                           !.result.totalAmount = @ + p.amount,
                           !.result.transfers = Append(@, p.posts[Len(p.posts)])])
  ELSE [p EXCEPT !.stage = "returned"]

\* sendPayout called with `amount` for item p.i (lines 135-152)
SendStart(p, amount) ==
  LET q == [p EXCEPT !.amount = amount, !.balanceRead = "none", !.available = 0,
                     !.attempted = Append(@, p.i)]
  IN IF amount < AppMinPayoutThreshold
     THEN SendThrown(q, "BELOW_MINIMUM_THRESHOLD")
     ELSE [q EXCEPT !.stage = "balance"]

\* the for loop of lines 300-318 from item p.i on, up to its next await
BatchLoop(p) ==
  IF p.i > Len(p.payouts)
  THEN [p EXCEPT !.stage = "returned"]
  ELSE SendStart(p, p.payouts[p.i].amount)

\* the POST /transfers of lines 167-178
IssueTransfer(p) ==
  [p EXCEPT !.stage = "transfer",
            !.posts = Append(@, [item |-> p.i, amount |-> Round2(p.amount) \div Cent])]

\* the balance check with the comparison left out
AfterBalanceUnchecked(p, ok, cents) ==
  IF ok
  THEN IssueTransfer([p EXCEPT !.balanceRead = "ok", !.available = cents * Cent])
  ELSE SendThrown([p EXCEPT !.balanceRead = "failed"], "API_ERROR")

\* lines 151-178 once GET /ledger/accounts has answered.  getBalance converts
\* cents to dollars (line 117); when the request fails it throws
\* PayoutError(API_ERROR) (lines 122-128), which the catch of line 161
\* rethrows, being a PayoutError
AfterBalance(p, ok, cents) ==
  IF ok
  THEN LET q == [p EXCEPT !.balanceRead = "ok", !.available = cents * Cent]
       IN IF p.amount > q.available
          THEN SendThrown(q, "INSUFFICIENT_BALANCE")
          ELSE IssueTransfer(q)
  ELSE SendThrown([p EXCEPT !.balanceRead = "failed"], "API_ERROR")

\* lines 179-212 once POST /transfers has answered: with the transfer, or
\* with an HTTP status
TransferOutcomes == {"ok", "400", "402", "500"}
AfterTransfer(p, outcome) ==
  IF outcome = "ok" THEN SendReturned(p)
  ELSE IF outcome = "400" THEN SendThrown(p, "INVALID_RECIPIENT")
  ELSE IF outcome = "402" THEN SendThrown(p, "INSUFFICIENT_BALANCE")
  ELSE SendThrown(p, "TRANSFER_FAILED")

\* ------------------------------------------------------------------------
\* State
\* ------------------------------------------------------------------------

VARIABLES
  calcIn,     \* the calculator's arguments [viewCount, config]
  calcOut,    \* the PayoutCalculation returned, once calcPc = "done"
  calcPc,     \* "input" before the call, "done" after
  probe,      \* the further calls made on the same configuration
  entries,    \* the repository: id -> [status, view_count, created_at]
  now,        \* Date.now(), in hours
  call,       \* the last approveSubmission / rejectSubmission call
  bulk,       \* the last bulkReview call of bulkReviewCommand
  pconfig,    \* QueueProcessor.config
  isRunning,  \* QueueProcessor.isRunning
  intervalHandle, \* QueueProcessor.intervalHandle: a timer id, or Null
  timers,     \* the interval timers that are set: [id, ms]
  results,    \* QueueProcessor.results
  stats,      \* the last getStats call of statsCommand
  pay,        \* the last sendPayout / processBatchPayouts call
  report,     \* what the last getStatus call returned
  runs        \* the processAll runs in flight

calcVars == <<calcIn, calcOut, calcPc, probe>>
repoVars == <<entries, now>>
procVars == <<pconfig, isRunning, intervalHandle, timers, results, runs>>
svcVars == <<stats, pay, report>>
vars == <<calcIn, calcOut, calcPc, probe, entries, now, call, bulk, stats, pay,
          report, pconfig, isRunning, intervalHandle, timers, results, runs>>

\* ------------------------------------------------------------------------
\* The calculator on drawn arguments
\* ------------------------------------------------------------------------

\* the valid configurations drawn: cpmRate > 0, flatFee >= 0, optional
\* bonusRate >= 0, minPayoutThreshold >= 0, maxPayoutCap > 0
CalcConfigs ==
  [ cpmRate            : {Grains(d * Hundred * Grain) : d \in 1..MaxCpmDollars},
    flatFee            : {Grains(g) : g \in 0..MaxFlatGrains},
    bonusRate          : {Undef} \cup {Grains(d * Hundred * Grain) : d \in 0..MaxBonusDollars},
    minPayoutThreshold : {Grains(g) : g \in 0..MaxThresholdGrains},
    maxPayoutCap       : {Grains(g) : g \in 1..MaxCapGrains} ]

\* one approveSubmission / rejectSubmission call: its arguments (id,
\* viewCount, campaignConfig, reason), the request it awaits (stage "get" or
\* "post") or how it ended ("returned", "thrown"), the view count and status
\* getSubmission read, the payout computed and the commands it has sent
NoCall ==
  [ op |-> "none", id |-> 0, viewCount |-> Undef, campaignConfig |-> NoCampaignConfig,
    reason |-> "", stage |-> "none", fetched |-> Undef, prior |-> "none",
    payout |-> NoCalc, cmds |-> <<>> ]

\* the state before any call is made
QuietInit ==
  /\ entries = [e \in EntryIds |->
                  [status |-> "pending",
                   view_count |-> IF e % 2 = 0 THEN 50000 ELSE Undef,
                   created_at |-> e % (MaxCreated + 1)]]
  /\ now = MaxCreated
  /\ call = NoCall
  /\ bulk = IdleSweep
  /\ stats = NoStatsCall
  /\ pay = NoPay
  /\ report = NoReport

\* a processor that is constructed and not started
ProcessorInit ==
  /\ pconfig \in {QueueProcessorConfig(a) : a \in StartArgs}
  /\ isRunning = FALSE
  /\ intervalHandle = Null
  /\ timers = {}
  /\ results = <<>>
  /\ runs = [r \in RunIds |-> IdleRun]

NoProcessor ==
  /\ pconfig = QueueProcessorConfig(CHOOSE a \in StartArgs : TRUE)
  /\ isRunning = FALSE
  /\ intervalHandle = Null
  /\ timers = {}
  /\ results = <<>>
  /\ runs = [r \in RunIds |-> IdleRun]

\* the calls that follow calculatePayout(viewCount, config), or follow each
\* other, on one configuration.  stage names the last one made: "meets"
\* (meets = meetsMinimumThreshold(viewCount, config)), "more" (calc2 =
\* calculatePayout(viewCount2, config)), "min" (minViews =
\* minimumViewsForPayout(config)), "checked" (meetsAt, meetsBelow =
\* meetsMinimumThreshold at minViews and at minViews - 1)
NoProbe ==
  [ stage |-> "none", meets |-> FALSE, viewCount2 |-> 0, calc2 |-> NoCalc,
    minViews |-> 0, meetsAt |-> FALSE, meetsBelow |-> FALSE ]

CalcInit ==
  /\ calcIn \in [viewCount : 0..MaxViewCount, config : CalcConfigs]
  /\ calcOut = NoCalc
  /\ calcPc = "input"
  /\ probe = NoProbe
  /\ QuietInit
  /\ NoProcessor

\* one call of calculatePayout on the drawn arguments
Calculate ==
  /\ calcPc = "input"
  /\ calcOut' = calculatePayout(calcIn.viewCount, calcIn.config)
  /\ calcPc' = "done"
  /\ UNCHANGED <<svcVars, procVars, calcIn, probe, repoVars, call, bulk>>

\* meetsMinimumThreshold called on the arguments calculatePayout was called on
MeetsMinimum ==
  /\ calcPc = "done" /\ probe.stage = "none"
  /\ probe' = [probe EXCEPT !.stage = "meets",
                 !.meets = meetsMinimumThreshold(calcIn.viewCount, calcIn.config)]
  /\ UNCHANGED <<svcVars, procVars, calcIn, calcOut, calcPc, repoVars, call, bulk>>

\* calculatePayout called again, with the same configuration and a view count
\* that is not smaller
CalculateMore ==
  /\ calcPc = "done" /\ probe.stage = "none"
  /\ \E v2 \in calcIn.viewCount..MaxViewCount :
       probe' = [probe EXCEPT !.stage = "more", !.viewCount2 = v2,
                   !.calc2 = calculatePayout(v2, calcIn.config)]
  /\ UNCHANGED <<svcVars, procVars, calcIn, calcOut, calcPc, repoVars, call, bulk>>

PayoutNext == Calculate \/ MeetsMinimum \/ CalculateMore

SpecPayout == CalcInit /\ [][PayoutNext]_vars

\* ------------------------------------------------------------------------
\* minimumViewsForPayout and meetsMinimumThreshold on drawn configurations
\* ------------------------------------------------------------------------

\* the fields the two helpers read (Pick<CampaignConfig, 'cpmRate' | 'flatFee'
\* | 'minPayoutThreshold'>); the type admits a cpmRate of 0
ThresholdConfigs ==
  [ cpmRate            : {Grains(d * Hundred * Grain) : d \in 0..MaxCpmDollars},
    flatFee            : {Grains(g) : g \in 0..MaxFlatGrains},
    minPayoutThreshold : {Grains(g) : g \in 0..MaxThresholdGrains} ]

ThresholdInit ==
  /\ calcIn \in [viewCount : {0}, config : ThresholdConfigs]
  /\ calcOut = NoCalc
  /\ calcPc = "helpers"
  /\ probe = NoProbe
  /\ QuietInit
  /\ NoProcessor

\* one call of minimumViewsForPayout
MinimumViews ==
  /\ probe.stage = "none"
  /\ \E up \in BOOLEAN :
       probe' = [probe EXCEPT !.stage = "min",
                   !.minViews = minimumViewsForPayout(calcIn.config, up)]
  /\ UNCHANGED <<svcVars, procVars, calcIn, calcOut, calcPc, repoVars, call, bulk>>

\* meetsMinimumThreshold called on the view count returned, and on one less
MeetsAtMinimum ==
  /\ probe.stage = "min"
  /\ probe' = [probe EXCEPT !.stage = "checked",
                 !.meetsAt = meetsMinimumThreshold(probe.minViews, calcIn.config),
                 !.meetsBelow =
                   IF probe.minViews >= 1
                   THEN meetsMinimumThreshold(
                          IF probe.minViews = Infinity THEN Infinity
                          ELSE probe.minViews - 1, calcIn.config)
                   ELSE FALSE]
  /\ UNCHANGED <<svcVars, procVars, calcIn, calcOut, calcPc, repoVars, call, bulk>>

ThresholdNext == MinimumViews \/ MeetsAtMinimum

SpecThreshold == ThresholdInit /\ [][ThresholdNext]_vars

\* ------------------------------------------------------------------------
\* The repository (the remote API behind client.get / client.post) and its
\* environment
\* ------------------------------------------------------------------------

\* what GET /entries?experience_id=..&status=pending answers: the pending
\* entries of the experience, in the repository's order (by id)
PendingOf(exp) ==
  SelectSeq([e \in EntryIds |->
               [id |-> e, created_at |-> entries[e].created_at,
                view_count |-> entries[e].view_count]],
            LAMBDA s : ExperienceOf(s.id) = exp /\ entries[s.id].status = "pending")

SetStatus(e, status) == [entries EXCEPT ![e].status = status]

\* time passes
ClockAdvance ==
  /\ now < MaxNow
  /\ now' = now + 1
  /\ UNCHANGED <<svcVars, procVars, calcVars, entries, call, bulk>>

\* the platform refreshes an entry's view count (views only grow)
ViewRefresh ==
  \E e \in EntryIds, v \in ViewCounts :
    /\ v > entries[e].view_count
    /\ entries' = [entries EXCEPT ![e].view_count = v]
    /\ UNCHANGED <<svcVars, procVars, calcVars, now, call, bulk>>

\* a pending entry is held for manual review by the platform
ExternalFlag ==
  \E e \in EntryIds :
    /\ entries[e].status = "pending"
    /\ entries' = SetStatus(e, "flagged")
    /\ UNCHANGED <<svcVars, procVars, calcVars, now, call, bulk>>

\* ------------------------------------------------------------------------
\* approveSubmission / rejectSubmission called directly (approveCommand,
\* rejectCommand)
\* ------------------------------------------------------------------------

CallOver == call.stage \in {"none", "returned", "thrown"}

\* approveSubmission lines 202-206: up to the await of getSubmission
ApproveCall ==
  \E e \in EntryIds, vc \in {Undef, 0, 100}, cc \in CampaignConfigs :
    /\ CallOver
    /\ call' = [NoCall EXCEPT !.op = "approve", !.id = e, !.viewCount = vc,
                              !.campaignConfig = cc, !.stage = "get"]
    /\ UNCHANGED <<svcVars, procVars, calcVars, repoVars, bulk>>

\* lines 206-220: getSubmission answers; on success the payout is computed
\* and the approve command is issued; a failure is rethrown (229-232)
ApproveGet ==
  /\ call.op = "approve" /\ call.stage = "get"
  /\ \E ok \in BOOLEAN :
       IF ok
       THEN LET entry == entries[call.id]
                viewCount == ApprovalViewCount(call.viewCount, entry)
                payout == calculateSubmissionPayout(viewCount, call.campaignConfig)
            IN call' = [call EXCEPT
                 !.stage = "post", !.fetched = entry.view_count,
                 !.prior = entry.status, !.payout = payout,
                 !.cmds = Append(@, ApproveCommand(call.id, payout, viewCount,
                                                   entry.status))]
       ELSE call' = [call EXCEPT !.stage = "thrown"]
  /\ UNCHANGED <<svcVars, procVars, calcVars, repoVars, bulk>>

\* approveSubmission sending its command a second time when the first fails
ApprovePostRetries ==
  /\ call.op = "approve" /\ call.stage = "post"
  /\ \E ok \in BOOLEAN :
       IF ok
       THEN /\ entries' = SetStatus(call.id, "approved")
            /\ call' = [call EXCEPT !.stage = "returned"]
       ELSE /\ call' = IF Len(call.cmds) < 2
                       THEN [call EXCEPT !.cmds = Append(@, call.cmds[1])]
                       ELSE [call EXCEPT !.stage = "thrown"]
            /\ UNCHANGED entries
  /\ UNCHANGED <<svcVars, procVars, calcVars, now, bulk>>

\* lines 214-232: the repository answers the approve command
ApprovePost ==
  /\ call.op = "approve" /\ call.stage = "post"
  /\ \E ok \in BOOLEAN :
       IF ok
       THEN /\ entries' = SetStatus(call.id, "approved")
            /\ call' = [call EXCEPT !.stage = "returned"]
       ELSE /\ call' = [call EXCEPT !.stage = "thrown"]
            /\ UNCHANGED entries
  /\ UNCHANGED <<svcVars, procVars, calcVars, now, bulk>>

\* the deny command as rejectSubmission issues it (lines 245-248), whatever
\* the reason and the entry's status
RejectIssue(e, reason) ==
  [NoCall EXCEPT !.op = "reject", !.id = e, !.reason = reason, !.stage = "post",
                 !.prior = entries[e].status,
                 !.cmds = <<DenyCommand(e, reason, entries[e].status)>>]

\* rejectSubmission lines 242-248: up to the await of the deny command
RejectCall ==
  \E e \in EntryIds, reason \in {"", "spam"} :
    /\ CallOver
    /\ call' = RejectIssue(e, reason)
    /\ UNCHANGED <<svcVars, procVars, calcVars, repoVars, bulk>>

\* lines 245-255: the repository answers the deny command
RejectPost ==
  /\ call.op = "reject" /\ call.stage = "post"
  /\ \E ok \in BOOLEAN :
       IF ok
       THEN /\ entries' = SetStatus(call.id, "denied")
            /\ call' = [call EXCEPT !.stage = "returned"]
       ELSE /\ call' = [call EXCEPT !.stage = "thrown"]
            /\ UNCHANGED entries
  /\ UNCHANGED <<svcVars, procVars, calcVars, now, bulk>>

\* ------------------------------------------------------------------------
\* bulkReview called by bulkReviewCommand (cli/index.ts 575-611)
\* ------------------------------------------------------------------------

\* the options bulkReviewCommand builds (lines 587-592)
CliBulkOptions ==
  [ autoApproveAfterHours : {Undef, 1},
    minViewCount : {Undef, 100},
    limit : {Undef, 0, 1},
    campaignConfig : {NoCampaignConfig} ]

SweepOver(sw) == sw.stage \in {"idle", "done", "failed"}

BulkReviewCall ==
  \E exp \in ExperienceIds, opts \in CliBulkOptions :
    /\ SweepOver(bulk)
    /\ bulk' = NewSweep(exp, opts)
    /\ UNCHANGED <<svcVars, procVars, calcVars, repoVars, call>>

\* getPendingSubmissions answers, or throws
BulkList ==
  /\ bulk.stage = "list"
  /\ \E ok \in BOOLEAN : bulk' = AfterList(bulk, ok, PendingOf(bulk.exp), now)
  /\ UNCHANGED <<svcVars, procVars, calcVars, repoVars, call>>

\* getSubmission of the current item answers, or throws
BulkGet ==
  /\ bulk.stage = "get"
  /\ \E ok \in BOOLEAN : bulk' = AfterGet(bulk, ok, entries[CurrentId(bulk)])
  /\ UNCHANGED <<svcVars, procVars, calcVars, repoVars, call>>

\* the approve command of the current item answers, or throws
BulkPost ==
  /\ bulk.stage = "post"
  /\ \E ok \in BOOLEAN :
       /\ bulk' = AfterPost(bulk, ok)
       /\ entries' = IF ok THEN SetStatus(CurrentId(bulk), "approved") ELSE entries
  /\ UNCHANGED <<svcVars, procVars, calcVars, now, call>>

ReviewInit ==
  /\ calcIn = [viewCount |-> 0, config |-> NoCampaignConfig]
  /\ calcOut = NoCalc
  /\ calcPc = "off"
  /\ probe = NoProbe
  /\ QuietInit
  /\ NoProcessor

\* single approve / reject calls against a changing repository
ReviewNext ==
  \/ ViewRefresh \/ ExternalFlag
  \/ ApproveCall \/ ApproveGet \/ ApprovePost
  \/ RejectCall \/ RejectPost

SpecReview == ReviewInit /\ [][ReviewNext]_vars

\* bulk reviews run from the command line against a changing repository
SweepNext ==
  \/ ClockAdvance \/ ViewRefresh \/ ExternalFlag
  \/ BulkReviewCall \/ BulkList \/ BulkGet \/ BulkPost

SpecSweep == ReviewInit /\ [][SweepNext]_vars

\* ------------------------------------------------------------------------
\* getStats called by statsCommand over a drawn collection of submissions
\* ------------------------------------------------------------------------

\* the collections drawn: up to MaxStatsEntries submissions of any status
StatsEntries ==
  UNION { [1..n -> [status : Statuses, view_count : StatsViewCounts, created_at : {0}]]
          : n \in 0..MaxStatsEntries }

StatsInit ==
  /\ calcIn = [viewCount |-> 0, config |-> NoCampaignConfig]
  /\ calcOut = NoCalc
  /\ calcPc = "off"
  /\ probe = NoProbe
  /\ entries \in StatsEntries
  /\ now = 0
  /\ call = NoCall
  /\ bulk = IdleSweep
  /\ stats = NoStatsCall
  /\ pay = NoPay
  /\ report = NoReport
  /\ NoProcessor

\* what GET /entries answers with no status filter: every submission, in the
\* repository's order
AllOf(repo) ==
  [k \in 1..Len(repo) |->
     [id |-> k, status |-> repo[k].status, view_count |-> repo[k].view_count]]

\* statsCommand calls getStats, which requests the first page (lines 314-337)
StatsCall ==
  /\ stats.stage = "none"
  /\ stats' = [NoStatsCall EXCEPT !.stage = "list", !.requests = <<"GET /entries">>]
  /\ UNCHANGED <<procVars, calcVars, repoVars, call, bulk, pay, report>>

\* a page answers, or the request fails and getStats throws
StatsPage ==
  /\ stats.stage = "list"
  /\ \E ok \in BOOLEAN :
       stats' = IF ok
                THEN AfterPage(stats, PageAfter(AllOf(entries), stats.cursor))
                ELSE [stats EXCEPT !.stage = "thrown"]
  /\ UNCHANGED <<procVars, calcVars, repoVars, call, bulk, pay, report>>

StatsNext == StatsCall \/ StatsPage

SpecStats == StatsInit /\ [][StatsNext]_vars

\* ------------------------------------------------------------------------
\* sendPayout and processBatchPayouts called by the payout commands
\* ------------------------------------------------------------------------

PayOver == pay.stage \in {"none", "returned", "thrown"}

\* the batches drawn: up to MaxBatch items
Batches ==
  UNION { [1..n -> [recipientId : {1}, amount : PayAmounts]] : n \in 0..MaxBatch }

\* sendPayout called directly
SendPayoutCall ==
  \E amount \in PayAmounts :
    /\ PayOver
    /\ pay' = SendStart([NoPay EXCEPT !.kind = "send"], amount)
    /\ UNCHANGED <<procVars, calcVars, repoVars, call, bulk, stats, report>>

\* processBatchPayouts called (lines 289-300)
BatchPayoutCall ==
  \E payouts \in Batches :
    /\ PayOver
    /\ pay' = BatchLoop([NoPay EXCEPT !.kind = "batch", !.payouts = payouts, !.i = 1])
    /\ UNCHANGED <<procVars, calcVars, repoVars, call, bulk, stats, report>>

\* GET /ledger/accounts answers, or fails
BalanceAnswer ==
  /\ pay.stage = "balance"
  /\ \E ok \in BOOLEAN, cents \in LedgerCents : pay' = AfterBalance(pay, ok, cents)
  /\ UNCHANGED <<procVars, calcVars, repoVars, call, bulk, stats, report>>

\* POST /transfers answers, or fails
TransferAnswer ==
  /\ pay.stage = "transfer"
  /\ \E outcome \in TransferOutcomes : pay' = AfterTransfer(pay, outcome)
  /\ UNCHANGED <<procVars, calcVars, repoVars, call, bulk, stats, report>>

TransfersNext == SendPayoutCall \/ BatchPayoutCall \/ BalanceAnswer \/ TransferAnswer

SpecTransfers == ReviewInit /\ [][TransfersNext]_vars

\* ------------------------------------------------------------------------
\* QueueProcessor: start, stop, the interval timer and the runs of processAll
\* ------------------------------------------------------------------------

FreeRuns == {r \in RunIds : ~runs[r].active}
TimerIds == {t.id : t \in timers}
NewTimerId == CHOOSE n \in 1..(Cardinality(timers) + 1) : n \notin TimerIds

\* a call of processAll (line 111) up to its first await, in a free slot,
\* with the configuration cfg
BeginRunWith(cfg) ==
  /\ FreeRuns # {}
  /\ Recorded(results) < MaxResults
  /\ LET r == CHOOSE x \in FreeRuns : \A y \in FreeRuns : x <= y
         p == Proceed(IdleRun, results, cfg, isRunning', now)
     IN /\ runs' = [runs EXCEPT ![r] = p.run]
        /\ results' = p.results

BeginRun == BeginRunWith(pconfig)

\* start() without the isRunning check of lines 64-67
StartUnguarded ==
  /\ isRunning' = TRUE
  /\ BeginRun
  /\ timers' = timers \cup {[id |-> NewTimerId, ms |-> pconfig.intervalMs]}
  /\ intervalHandle' = NewTimerId
  /\ UNCHANGED <<svcVars, calcVars, repoVars, call, bulk, pconfig>>

\* start() (lines 63-87)
Start ==
  IF isRunning
  THEN UNCHANGED vars
  ELSE /\ isRunning' = TRUE
       /\ BeginRun
       /\ timers' = timers \cup {[id |-> NewTimerId, ms |-> pconfig.intervalMs]}
       /\ intervalHandle' = NewTimerId
       /\ UNCHANGED <<svcVars, calcVars, repoVars, call, bulk, pconfig>>

\* stop() (lines 92-106)
Stop ==
  IF ~isRunning
  THEN UNCHANGED vars
  ELSE /\ timers' = IF intervalHandle # Null
                    THEN {t \in timers : t.id # intervalHandle}
                    ELSE timers
       /\ intervalHandle' = Null
       /\ isRunning' = FALSE
       /\ UNCHANGED <<svcVars, calcVars, repoVars, call, bulk, pconfig, results, runs>>

\* a callback that skips its turn while a run of processAll is in flight
TimerTickGuarded ==
  /\ timers # {}
  /\ \A r \in RunIds : ~runs[r].active
  /\ BeginRun
  /\ UNCHANGED <<svcVars, calcVars, repoVars, call, bulk, pconfig, isRunning,
                 intervalHandle, timers>>

\* the callback of setInterval (lines 82-86) fires
TimerTick ==
  /\ timers # {}
  /\ BeginRun
  /\ UNCHANGED <<svcVars, calcVars, repoVars, call, bulk, pconfig, isRunning,
                 intervalHandle, timers>>

\* the run's bulkReview has moved to sw2; when that ends it, processAll goes on
RunMoves(r, sw2) ==
  LET run2 == [runs[r] EXCEPT !.sw = sw2]
      p == IF SweepOver(sw2)
           THEN Proceed(run2, results, pconfig, isRunning, now)
           ELSE [run |-> run2, results |-> results]
  IN /\ runs' = [runs EXCEPT ![r] = p.run]
     /\ results' = p.results

\* getPendingSubmissions of a run's sweep answers, or throws
RunList ==
  \E r \in RunIds, ok \in BOOLEAN :
    /\ runs[r].sw.stage = "list"
    /\ RunMoves(r, AfterList(runs[r].sw, ok, PendingOf(runs[r].sw.exp), now))
    /\ UNCHANGED <<svcVars, calcVars, repoVars, call, bulk, pconfig, isRunning,
                   intervalHandle, timers>>

\* getSubmission of a run's current item answers, or throws
RunGet ==
  \E r \in RunIds, ok \in BOOLEAN :
    /\ runs[r].sw.stage = "get"
    /\ RunMoves(r, AfterGet(runs[r].sw, ok, entries[CurrentId(runs[r].sw)]))
    /\ UNCHANGED <<svcVars, calcVars, repoVars, call, bulk, pconfig, isRunning,
                   intervalHandle, timers>>

\* the approve command of a run's current item answers, or throws
RunPost ==
  \E r \in RunIds, ok \in BOOLEAN :
    /\ runs[r].sw.stage = "post"
    /\ RunMoves(r, AfterPost(runs[r].sw, ok))
    /\ entries' = IF ok THEN SetStatus(CurrentId(runs[r].sw), "approved") ELSE entries
    /\ UNCHANGED <<svcVars, calcVars, now, call, bulk, pconfig, isRunning,
                   intervalHandle, timers>>

\* updateConfig(updates) (lines 201-210): the restart is stop() followed by
\* start(), whose timer is a new one and whose processAll begins at once
UpdateConfigWith(updates) ==
  /\ pconfig' = Assign(pconfig, updates)
  /\ IF Restarts(isRunning, updates)
     THEN /\ isRunning' = TRUE
          /\ BeginRunWith(pconfig')
          /\ timers' = {t \in timers : t.id # intervalHandle}
                         \cup {[id |-> NewTimerId, ms |-> pconfig'.intervalMs]}
          /\ intervalHandle' = NewTimerId
     ELSE UNCHANGED <<isRunning, intervalHandle, timers, results, runs>>
  /\ UNCHANGED <<svcVars, calcVars, repoVars, call, bulk>>

UpdateConfig == \E updates \in ConfigUpdates : UpdateConfigWith(updates)

\* the experience addExperience and removeExperience are called with:
\* experience 3, which holds no submission
AdminIds == {3}

\* addExperience(experienceId)
AddExperience ==
  \E experienceId \in AdminIds :
    /\ pconfig' = [pconfig EXCEPT
                     !.experienceIds = addExperience(@, experienceId)]
    /\ UNCHANGED <<svcVars, calcVars, repoVars, call, bulk, isRunning,
                   intervalHandle, timers, results, runs>>

\* removeExperience(experienceId); the runs in flight note that the
\* experience has left the list
RemoveExperience ==
  \E experienceId \in AdminIds :
    /\ pconfig' = [pconfig EXCEPT
                     !.experienceIds = removeExperience(@, experienceId)]
    /\ runs' = [r \in RunIds |->
                  [runs[r] EXCEPT !.stable = @ \ {experienceId}]]
    /\ UNCHANGED <<svcVars, calcVars, repoVars, call, bulk, isRunning,
                   intervalHandle, timers, results>>

\* getStatus() (lines 186-196)
GetStatus ==
  /\ report' = [asked |-> TRUE, isRunning |-> isRunning,
                recentResults |-> LastOf(results, RecentLimit)]
  /\ UNCHANGED <<procVars, calcVars, repoVars, call, bulk, stats, pay>>

\* clearHistory() (lines 222-224)
ClearHistory ==
  /\ results' = <<>>
  /\ UNCHANGED <<svcVars, calcVars, repoVars, call, bulk, pconfig, isRunning,
                 intervalHandle, timers, runs>>

QueueInit ==
  /\ calcIn = [viewCount |-> 0, config |-> NoCampaignConfig]
  /\ calcOut = NoCalc
  /\ calcPc = "off"
  /\ probe = NoProbe
  /\ QuietInit
  /\ ProcessorInit

\* a processor started and stopped from outside while its timer ticks and the
\* repository answers
QueueNext ==
  \/ ClockAdvance
  \/ Start \/ Stop \/ TimerTick
  \/ RunList \/ RunGet \/ RunPost

SpecQueue == QueueInit /\ [][QueueNext]_vars

\* a processor started, stopped and reconfigured from outside while its timer
\* ticks and the repository answers
AdminNext ==
  \/ Start \/ Stop \/ TimerTick
  \/ UpdateConfig \/ AddExperience \/ RemoveExperience
  \/ RunList \/ RunGet \/ RunPost

\* the repository of QuietInit at a time when every entry is old enough to
\* be approved by a sweep
LateInit ==
  /\ calcIn = [viewCount |-> 0, config |-> NoCampaignConfig]
  /\ calcOut = NoCalc
  /\ calcPc = "off"
  /\ probe = NoProbe
  /\ entries = [e \in EntryIds |->
                  [status |-> "pending",
                   view_count |-> IF e % 2 = 0 THEN 50000 ELSE Undef,
                   created_at |-> e % (MaxCreated + 1)]]
  /\ now = MaxNow
  /\ call = NoCall
  /\ bulk = IdleSweep
  /\ stats = NoStatsCall
  /\ pay = NoPay
  /\ report = NoReport

\* a processor constructed for experiences 3 and 2
AdminInit ==
  /\ LateInit
  /\ pconfig \in {QueueProcessorConfig([a EXCEPT !.experienceIds = <<3, 2>>]) : a \in StartArgs}
  /\ isRunning = FALSE
  /\ intervalHandle = Null
  /\ timers = {}
  /\ results = <<>>
  /\ runs = [r \in RunIds |-> IdleRun]

SpecAdmin == AdminInit /\ [][AdminNext]_vars

\* a processor whose history already holds 99 or 100 results
HistoryInit ==
  /\ LateInit
  /\ pconfig \in {QueueProcessorConfig([a EXCEPT !.experienceIds = <<3, 2>>]) : a \in StartArgs}
  /\ isRunning = FALSE
  /\ intervalHandle = Null
  /\ timers = {}
  /\ results \in {EarlierResults(n) : n \in {HistoryLimit - 1, HistoryLimit}}
  /\ runs = [r \in RunIds |-> IdleRun]

HistoryNext ==
  \/ Start \/ TimerTick
  \/ RunList \/ RunGet \/ RunPost
  \/ GetStatus \/ ClearHistory

SpecHistory == HistoryInit /\ [][HistoryNext]_vars

\* ------------------------------------------------------------------------
\* Properties of calculatePayout (SpecPayout)
\* ------------------------------------------------------------------------

\* C1: for every non-negative view count and valid configuration, the
\* finalPayout returned is exactly 0 or lies between minPayoutThreshold and
\* maxPayoutCap, both inclusive.
C1_FinalPayoutInRange ==
  calcPc = "done" =>
    \/ calcOut.finalPayout = 0
    \/ /\ calcIn.config.minPayoutThreshold <= calcOut.finalPayout
       /\ calcOut.finalPayout <= calcIn.config.maxPayoutCap

\* C9: meetsMinimum is true exactly when the returned, 2-decimal cappedTotal
\* is at least minPayoutThreshold.
C9_MeetsMinimumOfReturned ==
  calcPc = "done" =>
    (calcOut.meetsMinimum <=> calcOut.cappedTotal >= calcIn.config.minPayoutThreshold)

\* C10: the returned grossTotal is the 2-decimal rounding of the sum of the
\* returned cpmPayout, flatFee and bonusPayout.
C10_GrossIsSumOfReturnedParts ==
  calcPc = "done" =>
    calcOut.grossTotal =
      Round2(calcOut.cpmPayout + calcOut.flatFee + calcOut.bonusPayout)

\* C11: wasCapped is true exactly when the returned grossTotal is strictly
\* greater than maxPayoutCap, and when wasCapped is false the returned
\* cappedTotal equals the returned grossTotal.
C11_WasCappedOfReturned ==
  calcPc = "done" =>
    /\ calcOut.wasCapped <=> calcOut.grossTotal > calcIn.config.maxPayoutCap
    /\ ~calcOut.wasCapped => calcOut.cappedTotal = calcOut.grossTotal

\* C12: for one configuration and view counts v1 <= v2, the grossTotal
\* returned for v1 is at most the grossTotal returned for v2.
C12_GrossMonotone ==
  probe.stage = "more" =>
    /\ calcIn.viewCount <= probe.viewCount2
    /\ calcOut.grossTotal <= probe.calc2.grossTotal

\* two calls with different view counts: one pair whose grossTotals differ
\* and, for the same first call, one pair whose grossTotals round to the same
\* cent
C12_MoreViewsMoreGross ==
  /\ probe.stage = "more"
  /\ calcIn.viewCount < probe.viewCount2
  /\ calcOut.grossTotal < probe.calc2.grossTotal
  /\ calcIn.config.flatFee > 0
  /\ calculatePayout(calcIn.viewCount + 1, calcIn.config).grossTotal = calcOut.grossTotal

\* C15: meetsMinimumThreshold(viewCount, config) is true exactly when
\* viewCount / 1000 * cpmRate + flatFee >= minPayoutThreshold; it differs from
\* the meetsMinimum of calculatePayout(viewCount, config) only when a
\* bonusRate is present or maxPayoutCap < minPayoutThreshold.
C15_QuickCheckIsCpmPlusFlat ==
  probe.stage = "meets" =>
    /\ probe.meets <=>
         (calcIn.viewCount * calcIn.config.cpmRate
            + PerMille * calcIn.config.flatFee
              >= PerMille * calcIn.config.minPayoutThreshold)
    /\ (probe.meets # calcOut.meetsMinimum) =>
         \/ calcIn.config.bonusRate # Undef
         \/ calcIn.config.maxPayoutCap < calcIn.config.minPayoutThreshold

\* the quick check says no where calculatePayout, counting the bonus, says
\* yes, the cap being no obstacle
C15_BonusMakesTheDifference ==
  /\ probe.stage = "meets"
  /\ ~probe.meets /\ calcOut.meetsMinimum
  /\ calcIn.config.bonusRate > 0
  /\ calcIn.config.maxPayoutCap >= calcIn.config.minPayoutThreshold

\* r is x rounded to the nearest cent, halves up
NearestCent(r, x) ==
  /\ r % Cent = 0
  /\ 2 * r <= 2 * x + Cent
  /\ 2 * x + Cent < 2 * r + 2 * Cent

\* C16: calculatePayout(0, config) has cpmPayout 0 and bonusPayout 0; its
\* finalPayout is 0 with meetsMinimum false whenever flatFee <
\* minPayoutThreshold, and equals min(flatFee, maxPayoutCap) whenever that
\* value is >= minPayoutThreshold.
C16_ZeroViewsPayout ==
  (calcPc = "done" /\ calcIn.viewCount = 0) =>
    /\ calcOut.cpmPayout = 0 /\ calcOut.bonusPayout = 0
    /\ calcIn.config.flatFee < calcIn.config.minPayoutThreshold
         => (calcOut.finalPayout = 0 /\ ~calcOut.meetsMinimum)
    /\ Min(calcIn.config.flatFee, calcIn.config.maxPayoutCap)
           >= calcIn.config.minPayoutThreshold
         => calcOut.finalPayout = Min(calcIn.config.flatFee, calcIn.config.maxPayoutCap)

\* C16 as the code has it: calculatePayout(0, config) has cpmPayout 0 and
\* bonusPayout 0; its finalPayout is 0 with meetsMinimum false whenever
\* flatFee < minPayoutThreshold, and is min(flatFee, maxPayoutCap) rounded to
\* the nearest cent, with meetsMinimum true, whenever min(flatFee,
\* maxPayoutCap) >= minPayoutThreshold.
C16_ZeroViewsPayoutRounded ==
  (calcPc = "done" /\ calcIn.viewCount = 0) =>
    /\ calcOut.cpmPayout = 0 /\ calcOut.bonusPayout = 0
    /\ calcIn.config.flatFee < calcIn.config.minPayoutThreshold
         => (calcOut.finalPayout = 0 /\ ~calcOut.meetsMinimum)
    /\ Min(calcIn.config.flatFee, calcIn.config.maxPayoutCap)
           >= calcIn.config.minPayoutThreshold
         => /\ NearestCent(calcOut.finalPayout,
                           Min(calcIn.config.flatFee, calcIn.config.maxPayoutCap))
            /\ calcOut.meetsMinimum

\* no views and a flat fee of a fraction of a cent that clears the threshold:
\* the finalPayout is the fee rounded, not the fee
C16_SubCentFlatFeeRounded ==
  /\ calcPc = "done" /\ calcIn.viewCount = 0
  /\ calcIn.config.flatFee >= calcIn.config.minPayoutThreshold
  /\ calcIn.config.flatFee <= calcIn.config.maxPayoutCap
  /\ calcOut.meetsMinimum
  /\ calcOut.finalPayout # calcIn.config.flatFee
  /\ calcOut.finalPayout = Cent

\* ------------------------------------------------------------------------
\* Properties of minimumViewsForPayout (SpecThreshold)
\* ------------------------------------------------------------------------

\* C13: for cpmRate > 0 and m = minimumViewsForPayout(config),
\* meetsMinimumThreshold(m, config) is true, meetsMinimumThreshold(m - 1,
\* config) is false when m >= 1, and m is 0 exactly when flatFee >=
\* minPayoutThreshold.
C13_MinimumViewsRoundTrip ==
  (probe.stage = "checked" /\ calcIn.config.cpmRate > 0) =>
    /\ probe.meetsAt
    /\ probe.minViews >= 1 => ~probe.meetsBelow
    /\ probe.minViews = 0 <=>
         calcIn.config.flatFee >= calcIn.config.minPayoutThreshold

\* C14: with cpmRate = 0 and flatFee < minPayoutThreshold,
\* minimumViewsForPayout returns no finite view count: it returns positive
\* infinity, which meetsMinimumThreshold does not report as sufficient.
C14_UnreachableIsInfinity ==
  (probe.stage \in {"min", "checked"} /\ calcIn.config.cpmRate = 0
     /\ calcIn.config.flatFee < calcIn.config.minPayoutThreshold) =>
    /\ probe.minViews = Infinity
    /\ probe.stage = "checked" => ~probe.meetsAt

\* minimumViewsForPayout was called with cpmRate 0 and a flat fee below the
\* threshold, and meetsMinimumThreshold on what it returned
C14_ZeroRateUnreachable ==
  /\ probe.stage = "checked"
  /\ calcIn.config.cpmRate = 0
  /\ calcIn.config.flatFee > 0
  /\ calcIn.config.flatFee < calcIn.config.minPayoutThreshold
  /\ probe.minViews = Infinity
  /\ ~probe.meetsAt

\* ------------------------------------------------------------------------
\* Properties of approveSubmission and rejectSubmission (SpecReview)
\* ------------------------------------------------------------------------

\* C2: a call on an entry whose status is approved or denied sends no command
\* to the repository and does not succeed.
C2_IllegalTransitionRefused ==
  call.prior \in {"approved", "denied"} =>
    (call.cmds = <<>> /\ call.stage # "returned")

\* the view count the claim prescribes: the override when one is supplied
\* (0 included), otherwise the entry's view count as fetched
C5_ViewCount ==
  IF call.viewCount # Undef THEN call.viewCount
  ELSE IF call.fetched # Undef THEN call.fetched ELSE 0

\* C5: a successful approveSubmission has sent exactly one approve command,
\* for its entry, whose payout amount is the finalPayout of the breakdown it
\* returns; the breakdown is the payout of the override view count when one
\* is supplied and of the entry's view count otherwise; the entry is approved,
\* whatever the finalPayout.
C5_ApproveSendsReturnedPayout ==
  (call.op = "approve" /\ call.stage = "returned") =>
    /\ call.payout = calculateSubmissionPayout(C5_ViewCount, call.campaignConfig)
    /\ Len(call.cmds) = 1
    /\ call.cmds[1].kind = "approve"
    /\ call.cmds[1].id = call.id
    /\ call.cmds[1].payout_amount = call.payout.finalPayout
    /\ call.cmds[1].view_count = C5_ViewCount
    /\ entries[call.id].status = "approved"

\* an approval with an override of 0 views of an entry that has views: the
\* payout is 0, the command is sent and the entry is approved
C5_ZeroOverrideApproved ==
  /\ call.op = "approve" /\ call.stage = "returned"
  /\ call.viewCount = 0 /\ call.fetched = 50000
  /\ call.payout.finalPayout = 0
  /\ Len(call.cmds) = 1
  /\ entries[call.id].status = "approved"

\* C20: a failed approveSubmission throws to its caller and retries nothing:
\* when getSubmission failed it has sent no command; when the approve command
\* failed it has sent that one command, once, and the failing step changes
\* no entry; a call that threw returns no result and does nothing further; no
\* approveSubmission ever sends more than one command.
C20_FailurePropagated ==
  /\ [](call.op = "approve" =>
          /\ Len(call.cmds) <= 1
          /\ call.stage = "get" => call.cmds = <<>>
          /\ call.stage = "thrown" =>
               /\ call.prior = "none" => call.cmds = <<>>
               /\ call.prior # "none" =>
                    /\ Len(call.cmds) = 1
                    /\ call.cmds[1].kind = "approve"
                    /\ call.cmds[1].id = call.id)
  /\ [][(call.op = "approve" /\ call.stage = "post" /\ call'.stage = "thrown")
          => (call'.cmds = call.cmds /\ entries' = entries)]_vars
  /\ [][(call.stage = "thrown" /\ call' # call)
          => call'.stage \in {"get", "post"}]_vars

\* the approve command of a pending entry was sent once and failed: the call
\* threw and the entry is still pending
C20_ApproveCommandFailed ==
  /\ call.op = "approve" /\ call.stage = "thrown"
  /\ call.prior = "pending"
  /\ Len(call.cmds) = 1
  /\ entries[call.id].status = "pending"

\* the field of the per-call campaignConfig when it is supplied, 0 included,
\* and the application default otherwise
Supplied(field, default) == IF field # Undef THEN field ELSE default

\* C30: the payout of an approval is computed with every rate field supplied
\* in the per-call campaignConfig, a supplied 0 included (minPayoutThreshold 0:
\* no minimum is applied), and with the application default only for the
\* fields that are not supplied.
C30_SuppliedFieldsUsed ==
  (call.op = "approve" /\ call.stage \in {"post", "returned"}) =>
    call.payout =
      calculatePayout(C5_ViewCount,
        [ cpmRate            |-> Supplied(call.campaignConfig.cpmRate, AppDefaultCpmRate),
          flatFee            |-> Supplied(call.campaignConfig.flatFee, 0),
          bonusRate          |-> call.campaignConfig.bonusRate,
          minPayoutThreshold |-> Supplied(call.campaignConfig.minPayoutThreshold,
                                          AppMinPayoutThreshold),
          maxPayoutCap       |-> Supplied(call.campaignConfig.maxPayoutCap,
                                          AppMaxPayoutCap) ])

\* C6: rejectSubmission with an empty reason fails and sends no deny command.
C6_EmptyReasonRefused ==
  (call.op = "reject" /\ call.reason = "") =>
    (call.cmds = <<>> /\ call.stage = "thrown")

\* ------------------------------------------------------------------------
\* Properties of one sweep (SpecSweep)
\* ------------------------------------------------------------------------

\* the items of the batch the loop has reached, and those it has finished
Reached(sw) == IF sw.stage \in {"get", "post"} THEN sw.i ELSE sw.i - 1
Finished(sw) == IF sw.i = 0 THEN 0 ELSE sw.i - 1
AttemptedIds(sw) == {sw.attempted[k] : k \in 1..Len(sw.attempted)}

\* the thresholds in force: the supplied ones, the configured default age when
\* none (or 0) is supplied, no minimum view count when none is supplied
AgeThreshold(sw) ==
  IF sw.opts.autoApproveAfterHours \in {Undef, 0}
  THEN AppAutoApproveHours ELSE sw.opts.autoApproveAfterHours
ViewThreshold(sw) ==
  IF sw.opts.minViewCount = Undef THEN 0 ELSE sw.opts.minViewCount
AgeHours(sw, j) == sw.listedAt - sw.toProcess[j].created_at
ListedViews(sw, j) ==
  IF sw.toProcess[j].view_count = Undef THEN 0 ELSE sw.toProcess[j].view_count

\* C3: approveSubmission is invoked for a processed entry exactly when its age
\* is >= the age threshold and its view count >= the minimum view count.
C3_ApprovedFromThresholdAge ==
  \A j \in 1..Reached(bulk) :
    (bulk.toProcess[j].id \in AttemptedIds(bulk)) <=>
      (AgeHours(bulk, j) >= AgeThreshold(bulk) /\ ListedViews(bulk, j) >= ViewThreshold(bulk))

\* C3 as the code has it: approveSubmission is invoked for a processed entry
\* exactly when its age is strictly greater than the age threshold and its
\* listed view count >= the minimum view count.
C3_ApprovedWhenOlder ==
  \A j \in 1..Reached(bulk) :
    (bulk.toProcess[j].id \in AttemptedIds(bulk)) <=>
      (AgeHours(bulk, j) > AgeThreshold(bulk) /\ ListedViews(bulk, j) >= ViewThreshold(bulk))

\* a sweep has skipped an entry with enough views whose age is exactly the
\* threshold, and has invoked approveSubmission for an older one
C3_ThresholdAgeSkipped ==
  /\ \E j \in 1..Reached(bulk) :
       /\ AgeHours(bulk, j) = AgeThreshold(bulk)
       /\ ListedViews(bulk, j) >= ViewThreshold(bulk)
       /\ bulk.toProcess[j].id \notin AttemptedIds(bulk)
  /\ \E j \in 1..Reached(bulk) :
       /\ AgeHours(bulk, j) > AgeThreshold(bulk)
       /\ bulk.toProcess[j].id \in AttemptedIds(bulk)

FailedIds(sw) == {sw.failed[k] : k \in 1..Len(sw.failed)}
RECURSIVE PayoutSum(_, _)
PayoutSum(cmds, failedIds) ==
  IF cmds = <<>> THEN 0
  ELSE (IF Head(cmds).id \in failedIds THEN 0 ELSE Head(cmds).payout_amount)
         + PayoutSum(Tail(cmds), failedIds)

PlaceOf(sw, id) == CHOOSE j \in 1..Len(sw.toProcess) : sw.toProcess[j].id = id

\* the batch of sweep sw holds distinct entries of its experience; the
\* entries approveSubmission was invoked for were taken in the order of the
\* batch, one at a time: no command is sent for an entry before the handling
\* of every earlier entry has finished, and at most one command is unanswered
InOrderOneByOne(sw) ==
  /\ \A j \in 1..Len(sw.toProcess) : ExperienceOf(sw.toProcess[j].id) = sw.exp
  /\ \A j, k \in 1..Len(sw.toProcess) :
       j # k => sw.toProcess[j].id # sw.toProcess[k].id
  /\ \A a \in 1..Len(sw.attempted) :
       /\ \E j \in 1..Len(sw.toProcess) : sw.toProcess[j].id = sw.attempted[a]
       /\ \A b \in 1..Len(sw.attempted) :
            a < b => PlaceOf(sw, sw.attempted[a]) < PlaceOf(sw, sw.attempted[b])
  /\ sw.stage \in {"get", "post"} =>
       /\ sw.attempted # <<>>
       /\ sw.attempted[Len(sw.attempted)] = sw.toProcess[sw.i].id
       /\ sw.results.approved + sw.results.skipped = sw.i - 1
  /\ \A k \in 1..Len(sw.cmds) : sw.cmds[k].id \in AttemptedIds(sw)
  /\ Len(sw.cmds) <= sw.results.approved + Len(sw.failed)
                       + (IF sw.stage = "post" THEN 1 ELSE 0)

\* C19: a sweep with batch limit L processes at most L entries, entries of its
\* campaign, in the order of its batch and one after another (the second
\* conjunct is the one that fails, for L = 0).
C19_AtMostLimit ==
  /\ InOrderOneByOne(bulk)
  /\ bulk.opts.limit # Undef => Len(bulk.toProcess) <= bulk.opts.limit

\* the entries sweep sw has sent a command for
CommandedIds(sw) == {sw.cmds[k].id : k \in 1..Len(sw.cmds)}

\* sweep sw has rejected nothing: its rejected count is 0, every command it
\* has sent is an approve command, and it has sent no command for a processed
\* entry that was not eligible
NothingRejected(sw) ==
  /\ sw.results.rejected = 0
  /\ \A k \in 1..Len(sw.cmds) : sw.cmds[k].kind = "approve"
  /\ \A j \in 1..Reached(sw) :
       ~(AgeHours(sw, j) > AgeThreshold(sw) /\ ListedViews(sw, j) >= ViewThreshold(sw))
         => /\ sw.toProcess[j].id \notin AttemptedIds(sw)
            /\ sw.toProcess[j].id \notin CommandedIds(sw)

\* C17: a sweep never rejects: no sweep of bulkReview or of the QueueProcessor
\* sends a deny command, the rejected count of every sweep is 0, no entry is
\* ever denied, and an entry that is not eligible is left alone: it stays
\* pending as far as the sweep is concerned.
C17_SweepNeverRejects ==
  /\ NothingRejected(bulk)
  /\ \A r \in RunIds : NothingRejected(runs[r].sw)
  /\ \A e \in EntryIds : entries[e].status # "denied"
  /\ bulk.stage = "done" =>
       \A j \in 1..Len(bulk.toProcess) :
         entries[bulk.toProcess[j].id].status = "pending"
           \/ entries[bulk.toProcess[j].id].status = "flagged"
           \/ bulk.toProcess[j].id \in CommandedIds(bulk)

\* a finished sweep that approved one entry and skipped another, not old
\* enough, which is still pending
C17_IneligibleLeftPending ==
  /\ bulk.stage = "done"
  /\ bulk.results.approved >= 1
  /\ bulk.results.skipped >= 1
  /\ \E j \in 1..Len(bulk.toProcess) :
       /\ AgeHours(bulk, j) <= AgeThreshold(bulk)
       /\ bulk.toProcess[j].id \notin CommandedIds(bulk)
       /\ entries[bulk.toProcess[j].id].status = "pending"

\* ------------------------------------------------------------------------
\* Properties of the QueueProcessor (SpecQueue)
\* ------------------------------------------------------------------------

\* a processAll run begins in slot r, with the sweep of the first experience
RunBegins(r) ==
  /\ ~runs[r].active /\ runs'[r].active
  /\ runs'[r].k = 1
  /\ runs'[r].sw.stage = "list"
  /\ runs'[r].sw.exp = pconfig.experienceIds[1]
  /\ \A q \in RunIds \ {r} : runs'[q] = runs[q]
OneRunBegins == \E r \in RunIds : RunBegins(r)

\* C7: the processor is stopped or running; it is running exactly while its
\* one interval timer is set. start() from stopped makes it running and begins
\* one run of processAll; each timer tick begins one more; stop() from running
\* makes it stopped and leaves the runs in flight alone; start() while running
\* and stop() while stopped change nothing; nothing else starts, stops or
\* begins a run.
C7_TwoStateMachine ==
  /\ [](/\ isRunning \in BOOLEAN
        /\ isRunning => (Cardinality(timers) = 1 /\ intervalHandle \in TimerIds)
        /\ ~isRunning => (timers = {} /\ intervalHandle = Null))
  /\ [][/\ (Start /\ ~isRunning) => (isRunning' /\ OneRunBegins)
        /\ (Start /\ isRunning) => UNCHANGED vars
        /\ (Stop /\ isRunning) => (~isRunning' /\ runs' = runs /\ results' = results)
        /\ (Stop /\ ~isRunning) => UNCHANGED vars
        /\ TimerTick => (isRunning /\ isRunning' /\ OneRunBegins)
        /\ (isRunning' # isRunning) => (Start \/ Stop)
        /\ (\E r \in RunIds : ~runs[r].active /\ runs'[r].active)
             => (Start \/ TimerTick)]_vars

\* the processor was started, its timer ticked while the first run was still
\* in flight, and it was then stopped with both runs in flight
C7_StoppedAfterTick ==
  /\ ~isRunning
  /\ timers = {}
  /\ \A r \in RunIds : runs[r].active

\* C25: the running processor has no in-flight guard: whenever its timer is
\* set, a tick can fire and start a run of processAll, runs in flight or not
\* (as long as the model has a run to follow it with), and such a tick leaves
\* the runs in flight as they are; two sweeps of one campaign can thus be in
\* flight together and both send an approve command for one pending entry.
C25_NoInFlightGuard ==
  /\ []((timers # {} /\ FreeRuns # {} /\ Recorded(results) < MaxResults)
          => ENABLED TimerTick)
  /\ [][(TimerTick /\ \E r \in RunIds : runs[r].active)
          => (OneRunBegins /\ \A r \in RunIds : runs[r].active => runs'[r] = runs[r])]_vars

\* two runs of processAll have each sent, and not yet had answered, an approve
\* command for the same entry of the same experience, which is still pending
C25_TwoApprovesForOneEntry ==
  \E r1, r2 \in RunIds :
    /\ r1 # r2
    /\ runs[r1].sw.stage = "post" /\ runs[r2].sw.stage = "post"
    /\ runs[r1].sw.exp = runs[r2].sw.exp
    /\ CurrentId(runs[r1].sw) = CurrentId(runs[r2].sw)
    /\ entries[CurrentId(runs[r1].sw)].status = "pending"
    /\ runs[r1].sw.cmds # <<>> /\ runs[r2].sw.cmds # <<>>

\* the sweep of an experience begins in run r
SweepBegins(r) ==
  /\ runs'[r].sw.stage = "list"
  /\ runs[r].sw.stage # "list" \/ runs'[r].k # runs[r].k

\* C8: while the processor is stopped no sweep begins: no timer tick starts
\* processAll and no run in flight starts the sweep of a further experience.
C8_NoSweepBeginsWhileStopped ==
  [][(~isRunning /\ ~isRunning') => \A r \in RunIds : ~SweepBegins(r)]_vars

\* ------------------------------------------------------------------------
\* getStats and statsCommand
\* ------------------------------------------------------------------------

\* the submissions of the repository with the given status
WithStatus(status) == {k \in DOMAIN entries : entries[k].status = status}

\* the sum of the view counts of a set of submissions, a missing count being 0
RECURSIVE ViewsOf(_)
ViewsOf(S) ==
  IF S = {} THEN 0
  ELSE LET k == CHOOSE x \in S : TRUE
       IN (IF entries[k].view_count = Undef THEN 0 ELSE entries[k].view_count)
          + ViewsOf(S \ {k})

\* the counts of a returned getStats: the total, one count per status, and
\* the views of the approved submissions only
StatsCounts ==
  /\ stats.result.total = Len(entries)
  /\ stats.result.pending = Cardinality(WithStatus("pending"))
  /\ stats.result.approved = Cardinality(WithStatus("approved"))
  /\ stats.result.rejected = Cardinality(WithStatus("denied"))
  /\ stats.result.flagged = Cardinality(WithStatus("flagged"))
  /\ stats.result.totalViews = ViewsOf(WithStatus("approved"))

RequestedFor(item) == IF pay.kind = "batch" THEN pay.payouts[item].amount ELSE pay.amount

\* C23: sendPayout never issues POST /transfers for a request that fails its
\* pre-checks.  No transfer is ever requested for an amount below the
\* minimum payout threshold, and a direct call with such an amount has
\* failed with BELOW_MINIMUM_THRESHOLD; when the balance was read and the
\* amount exceeds the available balance, the call fails with
\* INSUFFICIENT_BALANCE at that step and issues no POST /transfers; a POST
\* is issued only at a step where the balance read is at least the amount
C23_NoTransferPastPreChecks ==
  /\ [](/\ \A k \in DOMAIN pay.posts :
              RequestedFor(pay.posts[k].item) >= AppMinPayoutThreshold
        /\ (pay.kind = "send" /\ pay.amount < AppMinPayoutThreshold) =>
              /\ pay.stage = "thrown"
              /\ pay.code = "BELOW_MINIMUM_THRESHOLD"
              /\ pay.posts = <<>>
        /\ (pay.kind = "send" /\ pay.balanceRead = "ok" /\ pay.amount > pay.available) =>
              /\ pay.stage = "thrown"
              /\ pay.code = "INSUFFICIENT_BALANCE"
              /\ pay.posts = <<>>)
  /\ [][\A cents \in LedgerCents :
          (pay.stage = "balance" /\ pay' = AfterBalance(pay, TRUE, cents)) =>
            IF pay.amount > cents * Cent
            THEN /\ pay'.posts = pay.posts
                 /\ IF pay.kind = "send"
                    THEN pay'.stage = "thrown" /\ pay'.code = "INSUFFICIENT_BALANCE"
                    ELSE /\ pay'.result.failed > pay.result.failed
                         /\ pay'.result.errors[Len(pay.result.errors) + 1] =
                              [item |-> pay.i, error |-> "INSUFFICIENT_BALANCE"]
            ELSE /\ pay'.stage = "transfer"
                 /\ Len(pay'.posts) = Len(pay.posts) + 1]_vars

\* a direct sendPayout has failed with INSUFFICIENT_BALANCE after reading a
\* balance smaller than the amount, with no POST /transfers issued
C23_StoppedByBalance ==
  /\ pay.kind = "send"
  /\ pay.stage = "thrown"
  /\ pay.code = "INSUFFICIENT_BALANCE"
  /\ pay.balanceRead = "ok"
  /\ pay.amount > pay.available
  /\ pay.amount >= AppMinPayoutThreshold
  /\ pay.posts = <<>>

\* the sum of the amounts of the items of a sequence of transfers
RECURSIVE AmountOf(_)
AmountOf(transfers) ==
  IF transfers = <<>> THEN 0
  ELSE pay.payouts[Head(transfers).item].amount + AmountOf(Tail(transfers))

\* C24: processBatchPayouts attempts every item in order, whatever failed
\* before, and on return successful + failed is the number of items,
\* transfers has `successful` entries and errors `failed` entries, one per
\* failed item and naming it, and totalAmount is the sum of the amounts of
\* the successful items only
C24_BatchCountsEveryItem ==
  (pay.kind = "batch" /\ pay.stage = "returned") =>
    LET r == pay.result
        paid == {r.transfers[k].item : k \in DOMAIN r.transfers}
        bad == {r.errors[k].item : k \in DOMAIN r.errors}
    IN /\ pay.attempted = [k \in 1..Len(pay.payouts) |-> k]
       /\ r.successful + r.failed = Len(pay.payouts)
       /\ Len(r.transfers) = r.successful
       /\ Len(r.errors) = r.failed
       /\ Cardinality(paid) = r.successful
       /\ Cardinality(bad) = r.failed
       /\ paid \cap bad = {}
       /\ paid \cup bad = 1..Len(pay.payouts)
       /\ r.totalAmount = AmountOf(r.transfers)

\* a batch has returned whose first item failed and whose second was paid
C24_PaidAfterFailure ==
  /\ pay.kind = "batch"
  /\ pay.stage = "returned"
  /\ Len(pay.payouts) >= 2
  /\ pay.result.failed >= 1
  /\ pay.result.errors[1].item = 1
  /\ pay.result.successful >= 1
  /\ pay.result.transfers[1].item = 2
  /\ pay.result.totalAmount = pay.payouts[2].amount

\* C26: when the balance lookup of a direct sendPayout call fails, sendPayout
\* does not fail because of it: it goes on to POST /transfers
C26_BalanceFailureProceeds ==
  (pay.kind = "send" /\ pay.balanceRead = "failed") =>
    /\ pay.posts # <<>>
    /\ pay.code # "API_ERROR"

\* ------------------------------------------------------------------------
\* QueueProcessor: updateConfig, addExperience, removeExperience, the history
\* ------------------------------------------------------------------------

SweptTimes(run, e) == Cardinality({k \in DOMAIN run.swept : run.swept[k] = e})

NoDuplicate(seq) == Cardinality(Range(seq)) = Len(seq)

\* C29: when a processAll run ends, every experience that was in the list
\* from its beginning to its end has been swept exactly once by it, whatever
\* addExperience and removeExperience calls were made meanwhile and whichever
\* sweeps failed; and no call puts an experience into the list twice
C29_ListedSweptOnce ==
  [][/\ \A r \in RunIds :
          (runs[r].active /\ ~runs'[r].active) =>
            \A e \in runs[r].stable : SweptTimes(runs[r], e) = 1
     /\ NoDuplicate(pconfig.experienceIds) => NoDuplicate(pconfig'.experienceIds)]_vars

SuffixOf(a, b) == Len(a) <= Len(b) /\ a = SubSeq(b, Len(b) - Len(a) + 1, Len(b))

\* C28: at the step that ends a processAll run the stored history holds at
\* most 100 results, and they are the last ones of the history as recorded
\* (with the result the step may add), in recording order; what getStatus
\* returns as recentResults is the last 10 results of the history, or all of
\* them when there are fewer; clearHistory empties the history
C28_HistoryKeepsLastHundred ==
  [][/\ (\E r \in RunIds : runs[r].active /\ ~runs'[r].active) =>
          /\ Len(results') <= HistoryLimit
          /\ \/ /\ SuffixOf(results', results)
                /\ Len(results') = Min(HistoryLimit, Len(results))
             \/ /\ results' # <<>>
                /\ SuffixOf(results', Append(results, results'[Len(results')]))
                /\ Len(results') = Min(HistoryLimit, Len(results) + 1)
     /\ report' # report =>
          /\ SuffixOf(report'.recentResults, results)
          /\ Len(report'.recentResults) = Min(RecentLimit, Len(results))
     /\ ClearHistory => (results' = <<>> /\ runs' = runs)]_vars

\* no run is in flight, the history was cut to 100 results of which the last
\* two were recorded by a run, and getStatus has returned 10 of them
C28_CutHistoryReported ==
  /\ \A r \in RunIds : ~runs[r].active
  /\ Len(results) = HistoryLimit
  /\ results[HistoryLimit].processedAt >= 0
  /\ results[HistoryLimit - 1].processedAt >= 0
  /\ results[1].processedAt > - HistoryLimit
  /\ report.asked
  /\ report.recentResults = SubSeq(results, HistoryLimit - RecentLimit + 1, HistoryLimit)

====
